---- MODULE Spec2Model ----
(***************************************************************************)
(* Model of the page text splitter (src/backend/text_splitter.py,          *)
(* src/backend/page.py) and of the page loader of src/backend/splitter.py. *)
(*                                                                         *)
(* A text is a sequence of characters.  split_pages is a generator: the    *)
(* model runs it step by step, one action per loop iteration or per call   *)
(* of the token recursion, and `out` is the list of SplitPage objects it   *)
(* has yielded so far.  The recursion of split_page_by_max_tokens is kept  *)
(* as an explicit call stack (`stack`), first half on top.                 *)
(***************************************************************************)
EXTENDS Integers, Sequences, FiniteSets, TLC

VARIABLES
    pages,      \* list[Page] handed to split_pages
    strategy,   \* "sentence" (SentenceTextSplitter) or "simple" (SimpleTextSplitter)
    conf,       \* the splitter's constructor arguments and the token counter
    pc,         \* position of the generator
    start,      \* split_pages: start of the sliding window
    end,        \* split_pages: end of the section last cut
    stack,      \* split_page_by_max_tokens: texts of the pending calls
    cur_page,   \* split_page_by_max_tokens: page_num argument of the pending calls
    idx,        \* SimpleTextSplitter.split_pages: loop variable
    sections,   \* history: start, end and text of every section the window has cut
    out,        \* SplitPage objects yielded so far, in order
    files,      \* main: the paths DATA_DIR.glob found
    docs,       \* what each of the files holds
    num_workers,\* NUM_WORKERS
    futures,    \* main: the future of each submitted slice_one(fp)
    collected,  \* main: the futures as_completed has handed out
    all_slices, \* main: all_slices
    main_pc,    \* position of main
    outfile     \* the slices written to OUT_PATH

(* the variables of a split_pages generator *)
splitter_vars ==
    <<pages, strategy, conf, pc, start, end, stack, cur_page, idx, sections, out>>

(* the variables of the batch driver *)
driver_vars ==
    <<files, docs, num_workers, futures, collected, all_slices, main_pc, outfile>>

vars == <<splitter_vars, driver_vars>>

----------------------------------------------------------------------------
(* Bounds of the model *)

MaxLen == 3      \* longest concatenated buffer
MaxPages == 2    \* most pages in a document
MaxOut == 4      \* most chunks a run is followed for
MaxWinLen == 6   \* longest buffer of the one-page documents of LongInit
MaxRunLen == 10  \* longest buffer without any sentence ending of LongInit
MaxLongOut == 7  \* most chunks a run over such a buffer is followed for

(* Characters: a letter, a sentence ending, a word break that is whitespace *)
Alphabet == {"a", ".", " "}

(* Constructor arguments drawn for SentenceTextSplitter / SimpleTextSplitter *)
SectionLengths == {2, 3}
OverlapPercents == {0, 50}
SearchLimits == {1, 2}
TokenBudgets == {1, 2}
TokenModes == {"char", "wide"}
ObjectLengths == {1, 2, 3}

----------------------------------------------------------------------------
(* Program constants *)

DEFAULT_OVERLAP_PERCENT == 10

(* STANDARD_SENTENCE_ENDINGS; the CJK endings are not in the Alphabet *)
sentence_endings == {".", "!", "?"}

(* STANDARD_WORD_BREAKS; the CJK word breaks are not in the Alphabet *)
word_breaks == {",", ";", ":", " ", "(", ")", "[", "]", "{", "}", "\t", "\n"}

(* Characters str.strip() removes *)
Whitespace == {" ", "\t", "\n"}

----------------------------------------------------------------------------
(* Strings *)

Min(a, b) == IF a <= b THEN a ELSE b

(* Python slice t[i:j] for 0 <= i, with j clipped to len(t) *)
Slice(t, i, j) == SubSeq(t, i + 1, Min(j, Len(t)))

(* Python t[i] *)
At(t, i) == t[i + 1]

(* faulty variant of IsBlank: the buffer is only tested for emptiness *)
IsBlankNoStrip(t) == t = <<>>

RECURSIVE LStrip(_)
LStrip(t) == IF t # <<>> /\ Head(t) \in Whitespace THEN LStrip(Tail(t)) ELSE t

RECURSIVE RStrip(_)
RStrip(t) ==
    IF t # <<>> /\ t[Len(t)] \in Whitespace THEN RStrip(SubSeq(t, 1, Len(t) - 1)) ELSE t

(* t.strip() *)
Strip(t) == RStrip(LStrip(t))

(* not t.strip() *)
IsBlank(t) == Strip(t) = <<>>

RECURSIVE Join(_)
(* "".join(p.text for p in pages) *)
Join(ps) == IF ps = <<>> THEN <<>> ELSE Head(ps).text \o Join(Tail(ps))

----------------------------------------------------------------------------
(* page.py *)

(* meta of a loaded document: url, title and category are always set *)
DocMeta == {<<"url", "u">>, <<"title", "t">>, <<"category", "Uncategorized">>}

(* dataclass default: field(default_factory=dict) *)
EmptyMeta == {}

Page(n, off, txt, m) == [page_num |-> n, offset |-> off, text |-> txt, meta |-> m]

(* SplitPage(page_num=n, text=txt): meta is not passed and takes its default *)
SplitPage(n, txt) == [page_num |-> n, text |-> txt, meta |-> EmptyMeta]

RECURSIVE LoadFrom(_, _, _, _)
LoadFrom(blocks, i, off, m) ==
    IF i > Len(blocks) THEN <<>>
    ELSE <<Page(i - 1, off, blocks[i], m)>>
         \o LoadFrom(blocks, i + 1, off + Len(blocks[i]), m)

(* load_pages: page_num is the block's index, offset the running length *)
load_pages(blocks, m) == LoadFrom(blocks, 1, 0, m)

----------------------------------------------------------------------------
(* Token counter: encoder.encode is an external tokenizer.  It is modelled  *)
(* as one of a family of counters: one token per character, or two.        *)

TokenCount(mode, t) == IF mode = "char" THEN Len(t) ELSE 2 * Len(t)

----------------------------------------------------------------------------
(* SentenceTextSplitter._find_page *)

RECURSIVE FindFromStrict(_, _, _)
(* faulty variant of FindFrom: the lower comparison is strict *)
FindFromStrict(ps, offset, i) ==
    IF i > Len(ps) - 1 THEN ps[Len(ps)].page_num
    ELSE IF ps[i].offset < offset /\ offset < ps[i + 1].offset
         THEN ps[i].page_num
         ELSE FindFromStrict(ps, offset, i + 1)

RECURSIVE FindFromFlipped(_, _, _)
(* faulty variant of FindFrom: the upper comparison is the wrong way round *)
FindFromFlipped(ps, offset, i) ==
    IF i > Len(ps) - 1 THEN ps[Len(ps)].page_num
    ELSE IF ps[i].offset <= offset /\ offset >= ps[i + 1].offset
         THEN ps[i].page_num
         ELSE FindFromFlipped(ps, offset, i + 1)

RECURSIVE FindFrom(_, _, _)
FindFrom(ps, offset, i) ==
    IF i > Len(ps) - 1 THEN ps[Len(ps)].page_num
    ELSE IF ps[i].offset <= offset /\ offset < ps[i + 1].offset
         THEN ps[i].page_num
         ELSE FindFrom(ps, offset, i + 1)

_find_page(ps, offset) == FindFrom(ps, offset, 1)

----------------------------------------------------------------------------
(* SentenceTextSplitter.__init__ *)

section_overlap(max_section_length, overlap_percent) ==
    (max_section_length * overlap_percent) \div 100

----------------------------------------------------------------------------
(* SentenceTextSplitter.split_page_by_max_tokens *)

RECURSIVE SearchSplitRightFirst(_, _, _, _)
(* faulty variant of SearchSplit: the right position is tested first *)
SearchSplitRightFirst(text, center, boundary, offset) ==
    IF offset >= boundary THEN -1
    ELSE LET left == center - offset
             right == center + offset
         IN IF right < Len(text) /\ At(text, right) \in sentence_endings THEN right + 1
            ELSE IF left > 0 /\ At(text, left) \in sentence_endings
                 THEN left + 1
                 ELSE SearchSplitRightFirst(text, center, boundary, offset + 1)

RECURSIVE SearchSplit(_, _, _, _)
(* the for loop over offset in range(boundary): -1 when nothing is found *)
SearchSplit(text, center, boundary, offset) ==
    IF offset >= boundary THEN -1
    ELSE LET left == center - offset
             right == center + offset
         IN IF left > 0 /\ At(text, left) \in sentence_endings THEN left + 1
            ELSE IF right < Len(text) /\ At(text, right) \in sentence_endings
                 THEN right + 1
                 ELSE SearchSplit(text, center, boundary, offset + 1)

split_pos(text) == SearchSplit(text, Len(text) \div 2, Len(text) \div 3, 0)

(* int(length * (DEFAULT_OVERLAP_PERCENT / 100)) *)
FallbackOverlap(length) == (length * DEFAULT_OVERLAP_PERCENT) \div 100

(* faulty variant of Halves: the fallback cuts at mid without overlap *)
HalvesNoPad(text) ==
    LET length == Len(text)
        sp == split_pos(text)
        mid == length \div 2
    IN IF sp < 0
       THEN <<Slice(text, 0, mid), Slice(text, mid, length)>>
       ELSE <<Slice(text, 0, sp), Slice(text, sp, length)>>

(* the two texts of the recursive calls, <<first, second>> *)
Halves(text) ==
    LET length == Len(text)
        sp == split_pos(text)
        mid == length \div 2
        overlap == FallbackOverlap(length)
    IN IF sp < 0
       THEN <<Slice(text, 0, mid + overlap), Slice(text, mid - overlap, length)>>
       ELSE <<Slice(text, 0, sp), Slice(text, sp, length)>>

(* faulty variant of FitsBudget: the budget is exceeded by one token *)
FitsBudgetOffByOne(text) == TokenCount(conf.mode, text) <= conf.max_tokens_per_section + 1

(* the test of the base case *)
FitsBudget(text) == TokenCount(conf.mode, text) <= conf.max_tokens_per_section

----------------------------------------------------------------------------
(* SentenceTextSplitter.split_pages: the end of the section starting at s *)

RECURSIVE Scan(_, _, _, _, _)
(* the inner while loop: <<cursor, last_word_break>> when it stops *)
Scan(text, e, cursor, last_word_break, limit) ==
    IF cursor < Len(text) /\ cursor - e < limit
       /\ At(text, cursor) \notin sentence_endings
    THEN Scan(text, e, cursor + 1,
              IF At(text, cursor) \in word_breaks THEN cursor ELSE last_word_break,
              limit)
    ELSE <<cursor, last_word_break>>

SectionEnd(text, s, max_section_length, limit) ==
    LET e == Min(s + max_section_length, Len(text))
        r == Scan(text, e, e, -1, limit)
        cursor == r[1]
        last_word_break == r[2]
    IN IF cursor < Len(text) /\ last_word_break > 0
       THEN last_word_break + 1
       ELSE cursor

----------------------------------------------------------------------------
(* Initial states: a document loaded by load_pages and a splitter *)

Texts == UNION {[1..n -> Alphabet] : n \in 0..MaxLen}

(* the blocks of a document: the buffer t cut at the positions c *)
Blocks(t, c) ==
    [i \in 1..(Len(c) + 1) |->
        Slice(t, IF i = 1 THEN 0 ELSE c[i - 1], IF i > Len(c) THEN Len(t) ELSE c[i])]

CutLists(n) ==
    {c \in UNION {[1..k -> 0..n] : k \in 0..(MaxPages - 1)} :
        \A i \in 1..(Len(c) - 1) : c[i] <= c[i + 1]}

BlockLists == {<<>>} \cup UNION {{Blocks(t, c) : c \in CutLists(Len(t))} : t \in Texts}

(* conf holds the fields of the splitter in use; the other splitter's are 0 *)
SentenceConfs ==
    [max_tokens_per_section : TokenBudgets,
     max_section_length : SectionLengths,
     overlap_percent : OverlapPercents,
     sentence_search_limit : SearchLimits,
     mode : TokenModes,
     max_object_length : {0}]

SimpleConfs ==
    [max_tokens_per_section : {0},
     max_section_length : {0},
     overlap_percent : {0},
     sentence_search_limit : {0},
     mode : {"char"},
     max_object_length : ObjectLengths]

all_text == Join(pages)

total_len == Len(all_text)

Overlap == section_overlap(conf.max_section_length, conf.overlap_percent)

(* a run over a buffer longer than MaxLen is followed for more chunks *)
OutLimit == IF total_len > MaxLen THEN MaxLongOut ELSE MaxOut

(* no batch is running *)
DriverIdle ==
    /\ files = {}
    /\ docs = <<>>
    /\ num_workers = 0
    /\ futures = <<>>
    /\ collected = {}
    /\ all_slices = <<>>
    /\ main_pc = "idle"
    /\ outfile = <<>>

Init ==
    /\ \E bs \in BlockLists : pages = load_pages(bs, DocMeta)
    /\ \/ strategy = "sentence" /\ conf \in SentenceConfs
       \/ strategy = "simple" /\ conf \in SimpleConfs
    /\ pc = "begin"
    /\ start = 0
    /\ end = 0
    /\ stack = <<>>
    /\ cur_page = 0
    /\ idx = 0
    /\ sections = <<>>
    /\ out = <<>>
    /\ DriverIdle

----------------------------------------------------------------------------
(* SentenceTextSplitter.split_pages *)

(* lines 131-141: whitespace-only buffer, or a buffer of one section *)
SentenceBegin ==
    /\ pc = "begin" /\ strategy = "sentence"
    /\ IF IsBlank(all_text)
       THEN pc' = "done" /\ UNCHANGED <<stack, cur_page>>
       ELSE IF total_len <= conf.max_section_length
            THEN /\ pc' = "tokens_last"
                 /\ stack' = <<all_text>>
                 /\ cur_page' = _find_page(pages, 0)
            ELSE pc' = "loop" /\ UNCHANGED <<stack, cur_page>>
    /\ start' = 0
    /\ UNCHANGED <<driver_vars, pages, strategy, conf, end, idx, sections, out>>

(* lines 144-166: the loop test, and the cut of one section *)
CutSection ==
    /\ pc = "loop"
    /\ IF start < total_len
       THEN LET e == SectionEnd(all_text, start, conf.max_section_length,
                                conf.sentence_search_limit)
            IN /\ end' = e
               /\ stack' = <<Slice(all_text, start, e)>>
               /\ cur_page' = _find_page(pages, start)
               /\ sections' = Append(sections, [s |-> start, e |-> e, text |-> Slice(all_text, start, e)])
               /\ pc' = "tokens"
       ELSE pc' = "done" /\ UNCHANGED <<end, stack, cur_page, sections>>
    /\ UNCHANGED <<driver_vars, pages, strategy, conf, start, idx, out>>

(* faulty variant of Advance: the next window starts where the section ended *)
AdvanceNoOverlap ==
    /\ pc = "tokens" /\ stack = <<>>
    /\ start' = end
    /\ pc' = "loop"
    /\ UNCHANGED <<driver_vars, pages, strategy, conf, end, stack, cur_page, idx, sections, out>>

(* line 168, once the recursion over the section has yielded everything *)
Advance ==
    /\ pc = "tokens" /\ stack = <<>>
    /\ start' = end - Overlap
    /\ pc' = "loop"
    /\ UNCHANGED <<driver_vars, pages, strategy, conf, end, stack, cur_page, idx, sections, out>>

(* line 141: return after the recursion over the whole buffer *)
ReturnShort ==
    /\ pc = "tokens_last" /\ stack = <<>>
    /\ pc' = "done"
    /\ UNCHANGED <<driver_vars, pages, strategy, conf, start, end, stack, cur_page, idx, sections, out>>

(* split_page_by_max_tokens, base case (lines 89-92): yield the text *)
YieldChunk ==
    /\ pc \in {"tokens", "tokens_last"} /\ stack # <<>>
    /\ FitsBudget(Head(stack))
    /\ Len(out) < OutLimit
    /\ out' = Append(out, SplitPage(cur_page, Head(stack)))
    /\ stack' = Tail(stack)
    /\ UNCHANGED <<driver_vars, pages, strategy, conf, pc, start, end, cur_page, idx, sections>>

(* split_page_by_max_tokens, lines 95-121: recurse on first, then second *)
SplitChunk ==
    /\ pc \in {"tokens", "tokens_last"} /\ stack # <<>>
    /\ ~FitsBudget(Head(stack))
    /\ stack' = Halves(Head(stack)) \o Tail(stack)
    /\ UNCHANGED <<driver_vars, pages, strategy, conf, pc, start, end, cur_page, idx, sections, out>>

----------------------------------------------------------------------------
(* SimpleTextSplitter.split_pages *)

(* lines 197-204 *)
SimpleBegin ==
    /\ pc = "begin" /\ strategy = "simple"
    /\ IF IsBlank(all_text)
       THEN pc' = "done" /\ UNCHANGED out
       ELSE IF total_len <= conf.max_object_length
            THEN pc' = "done" /\ out' = Append(out, SplitPage(0, all_text))
            ELSE pc' = "simple_loop" /\ UNCHANGED out
    /\ idx' = 0
    /\ UNCHANGED <<driver_vars, pages, strategy, conf, start, end, stack, cur_page, sections>>

(* faulty variant of SimpleStep: the window is one character too long *)
SimpleStepLongWindow ==
    /\ pc = "simple_loop"
    /\ IF idx < total_len
       THEN /\ Len(out) < MaxOut
            /\ out' = Append(out, SplitPage(idx \div conf.max_object_length,
                                            Slice(all_text, idx, idx + conf.max_object_length + 1)))
            /\ idx' = idx + conf.max_object_length
            /\ pc' = pc
       ELSE pc' = "done" /\ UNCHANGED <<idx, out>>
    /\ UNCHANGED <<driver_vars, pages, strategy, conf, start, end, stack, cur_page, sections>>

(* faulty variant of SimpleStep: page_num comes from the offset locator *)
SimpleStepLocator ==
    /\ pc = "simple_loop"
    /\ IF idx < total_len
       THEN /\ Len(out) < MaxOut
            /\ out' = Append(out, SplitPage(_find_page(pages, idx),
                                            Slice(all_text, idx, idx + conf.max_object_length)))
            /\ idx' = idx + conf.max_object_length
            /\ pc' = pc
       ELSE pc' = "done" /\ UNCHANGED <<idx, out>>
    /\ UNCHANGED <<driver_vars, pages, strategy, conf, start, end, stack, cur_page, sections>>

(* lines 206-208: one iteration of for idx in range(0, length, L) *)
SimpleStep ==
    /\ pc = "simple_loop"
    /\ IF idx < total_len
       THEN /\ Len(out) < MaxOut
            /\ out' = Append(out, SplitPage(idx \div conf.max_object_length,
                                            Slice(all_text, idx, idx + conf.max_object_length)))
            /\ idx' = idx + conf.max_object_length
            /\ pc' = pc
       ELSE pc' = "done" /\ UNCHANGED <<idx, out>>
    /\ UNCHANGED <<driver_vars, pages, strategy, conf, start, end, stack, cur_page, sections>>

----------------------------------------------------------------------------

Next ==
    \/ SentenceBegin
    \/ CutSection
    \/ Advance
    \/ ReturnShort
    \/ YieldChunk
    \/ SplitChunk
    \/ SimpleBegin
    \/ SimpleStep

Spec == Init /\ [][Next]_vars

----------------------------------------------------------------------------
(* Properties of SentenceTextSplitter.split_pages *)

(* C1: in the sliding-window loop, start strictly increases on every
   iteration (line 168), which is what makes the loop reach start >= length
   and the chunk sequence finite. *)
StartStrictlyIncreases == [][Advance => start' > start]_vars

(* C2: every chunk the sentence splitter has yielded has a token count of at
   most max_tokens_per_section, whatever the token counter. *)
ChunksWithinTokenBudget ==
    strategy = "sentence" =>
        \A i \in 1..Len(out) :
            TokenCount(conf.mode, out[i].text) <= conf.max_tokens_per_section

(* a section that was over the budget has been split into several chunks *)
SplitSectionYielded ==
    /\ strategy = "sentence" /\ pc = "tokens"
    /\ Len(sections) = 1 /\ Len(out) >= 2
    /\ TokenCount(conf.mode, sections[1].text) > conf.max_tokens_per_section

RECURSIVE Reassemble(_, _)
(* the sections' texts concatenated, the first n characters of every section
   after the first dropped *)
Reassemble(secs, n) ==
    IF secs = <<>> THEN <<>>
    ELSE IF Len(secs) = 1 THEN secs[1].text
    ELSE Reassemble(SubSeq(secs, 1, Len(secs) - 1), n)
         \o Slice(secs[Len(secs)].text, n, Len(secs[Len(secs)].text))

(* C3: the sections cut by the sliding window start at 0, each next one
   starts section_overlap characters before the end of the previous one,
   each holds exactly the characters between its start and its end, and the
   sections so far, the overlap dropped, give the buffer up to the end of
   the last one; when the loop has ended that is the whole buffer. *)
SectionsReconstructBuffer ==
    (strategy = "sentence" /\ sections # <<>>) =>
        /\ sections[1].s = 0
        /\ \A k \in 1..(Len(sections) - 1) :
               sections[k + 1].s = sections[k].e - Overlap
        /\ \A k \in 1..Len(sections) :
               /\ sections[k].e <= total_len
               /\ Len(sections[k].text) = sections[k].e - sections[k].s
               /\ Len(sections[k].text) >= Overlap
        /\ Reassemble(sections, Overlap)
               = Slice(all_text, 0, sections[Len(sections)].e)
        /\ pc = "done" => sections[Len(sections)].e = total_len

(* overlapping sections have reached the end of the buffer *)
OverlappingSectionsReachEnd ==
    /\ strategy = "sentence" /\ Overlap > 0
    /\ Len(sections) >= 2
    /\ sections[1].e < total_len
    /\ sections[Len(sections)].e = total_len
    /\ Reassemble(sections, Overlap) = all_text

(* a text that is empty or holds whitespace only *)
WhitespaceOnly(t) == \A i \in 1..Len(t) : t[i] \in {" ", "\t", "\n"}

(* C4: a buffer that is empty or whitespace-only yields no chunk, in either
   strategy: the generator goes from its entry straight to its end. *)
BlankBufferYieldsNothing ==
    WhitespaceOnly(all_text) => (out = <<>> /\ pc \in {"begin", "done"})

(* a whitespace-only buffer of several characters has been processed *)
BlankBufferDone ==
    /\ pc = "done" /\ WhitespaceOnly(all_text) /\ total_len >= 2 /\ Len(pages) = 2

(* C5: every chunk carries the meta of the page its page_num names. *)
ChunkMetaInherited ==
    \A i \in 1..Len(out) :
        \E k \in 1..Len(pages) :
            /\ pages[k].page_num = out[i].page_num
            /\ out[i].meta = pages[k].meta

(* C6: no chunk's text is empty or whitespace-only. *)
NoBlankChunk == \A i \in 1..Len(out) : ~WhitespaceOnly(out[i].text)

(* C7: in the sentence strategy the page_num of the chunks never decreases
   in emission order. *)
PageNumNonDecreasing ==
    strategy = "sentence" =>
        \A i \in 1..Len(out) : \A j \in i..Len(out) :
            out[i].page_num <= out[j].page_num

(* chunks of two different pages have been yielded *)
TwoPagesAttributed ==
    /\ strategy = "sentence"
    /\ \E i \in 1..(Len(out) - 1) : out[i].page_num < out[i + 1].page_num

(* C8: _find_page gives the page whose range [offset_i, offset_i+1) holds the
   offset, the last page for an offset at or beyond the last page's offset,
   and the only page of a one-page list; the page a section is attributed
   to is the one found for the section's start. *)
FindPageContract ==
    pages # <<>> =>
        /\ pc = "begin" => \A o \in 0..(MaxLen + 1) :
               LET r == _find_page(pages, o)
               IN /\ \A i \in 1..(Len(pages) - 1) :
                         (pages[i].offset <= o /\ o < pages[i + 1].offset)
                             => r = pages[i].page_num
                  /\ o >= pages[Len(pages)].offset
                         => r = pages[Len(pages)].page_num
                  /\ Len(pages) = 1 => r = pages[1].page_num
        /\ pc = "tokens" =>
               /\ \A i \in 1..(Len(pages) - 1) :
                      (pages[i].offset <= start /\ start < pages[i + 1].offset)
                          => cur_page = pages[i].page_num
               /\ start >= pages[Len(pages)].offset
                      => cur_page = pages[Len(pages)].page_num

(* a section starting inside the first of two pages, after its beginning *)
SectionInsideFirstPage ==
    /\ pc = "tokens" /\ Len(pages) = 2
    /\ 0 < start /\ start < pages[2].offset
    /\ cur_page = pages[1].page_num

----------------------------------------------------------------------------
(* Properties of SimpleTextSplitter.split_pages *)

CeilDiv(a, b) == (a + b - 1) \div b

RECURSIVE ConcatTexts(_)
ConcatTexts(chunks) ==
    IF chunks = <<>> THEN <<>> ELSE Head(chunks).text \o ConcatTexts(Tail(chunks))

(* C9: on a buffer B that is not whitespace-only the simple splitter yields
   one chunk B for page 0 when len(B) <= L; otherwise the k-th chunk is
   B[k*L:(k+1)*L], and at the end there are ceil(len(B)/L) of them, all but
   the last of L characters, concatenating to B. *)
SimpleWindows ==
    (strategy = "simple" /\ ~WhitespaceOnly(all_text)) =>
        LET L == conf.max_object_length
        IN IF total_len <= L
           THEN pc = "done" =>
                    /\ Len(out) = 1
                    /\ out[1].text = all_text
                    /\ out[1].page_num = 0
           ELSE /\ \A k \in 0..(Len(out) - 1) :
                       out[k + 1].text = Slice(all_text, k * L, (k + 1) * L)
                /\ pc = "done" =>
                       /\ Len(out) = CeilDiv(total_len, L)
                       /\ \A k \in 1..(Len(out) - 1) : Len(out[k].text) = L
                       /\ ConcatTexts(out) = all_text

(* a buffer cut into several windows, the last one shorter *)
SimpleShortLastWindow ==
    /\ strategy = "simple" /\ pc = "done"
    /\ Len(out) >= 2
    /\ Len(out[Len(out)].text) < conf.max_object_length

(* C10, as stated: the page_num of the k-th chunk of the simple strategy is
   k divided by L. *)
SimplePageNumIsOrdinalDivL ==
    (strategy = "simple" /\ total_len > conf.max_object_length) =>
        \A k \in 0..(Len(out) - 1) :
            out[k + 1].page_num = k \div conf.max_object_length

(* C10, amended: the page_num of the k-th chunk of the simple strategy is the
   chunk's start offset k*L divided by L, which is k itself. *)
SimplePageNumIsOrdinal ==
    (strategy = "simple" /\ total_len > conf.max_object_length) =>
        \A k \in 0..(Len(out) - 1) :
            /\ out[k + 1].page_num = (k * conf.max_object_length) \div conf.max_object_length
            /\ out[k + 1].page_num = k

(* a chunk whose page_num differs from the page the offset locator finds *)
SimplePageNumNotLocated ==
    /\ strategy = "simple" /\ total_len > conf.max_object_length
    /\ conf.max_object_length >= 2
    /\ \E k \in 0..(Len(out) - 1) :
           out[k + 1].page_num # _find_page(pages, k * conf.max_object_length)

----------------------------------------------------------------------------
(* splitter.py: the batch driver *)

MaxFiles == 2    \* most files under DATA_DIR

MAX_OBJECT_LEN == 1200

DEFAULT_SECTION_LENGTH == 1000

(* NUM_WORKERS = os.cpu_count() or 4 *)
WorkerCounts == {1, 2}

(* directories under DATA_DIR, "" being DATA_DIR itself *)
Dirs == {"", "sub"}

(* bytes of "_text", which the glob pattern makes every stem end with *)
TextSuffix == <<95, 116, 101, 120, 116>>

(* fp.stem of the files: "x_text" and "y_text" *)
Stems == {<<120>> \o TextSuffix, <<121>> \o TextSuffix}

Paths == [dir : Dirs, stem : Stems]

(* total length of the text blocks of the documents *)
DocSizes == {0, MAX_OBJECT_LEN, MAX_OBJECT_LEN + 1}

(* what a file holds: text that cannot be read or parsed (load_pages logs
   and returns []; a document without text blocks fares the same), JSON of
   another shape than load_pages expects (it raises), or a document whose
   text blocks have `chars` characters in all *)
Docs ==
    {d \in [kind : {"unreadable", "malformed", "ok"}, chars : DocSizes, blank : BOOLEAN] :
        /\ d.chars = 0 => d.blank
        /\ d.kind # "ok" => d.chars = 0}

(* faulty variant of choose_splitter: the comparison is not strict *)
choose_splitterAtLeast(char_count) ==
    IF char_count >= MAX_OBJECT_LEN THEN "sentence" ELSE "simple"

(* choose_splitter: the splitter is named, not held *)
choose_splitter(char_count) ==
    IF char_count > MAX_OBJECT_LEN THEN "sentence" ELSE "simple"

RECURSIVE B64(_)
(* base64.urlsafe_b64encode(bytes).rstrip("="): the characters of the result,
   each as its index in the URL-safe alphabet (A-Z a-z 0-9 - _) *)
B64(bytes) ==
    IF bytes = <<>> THEN <<>>
    ELSE IF Len(bytes) = 1
         THEN <<bytes[1] \div 4, (bytes[1] % 4) * 16>>
    ELSE IF Len(bytes) = 2
         THEN <<bytes[1] \div 4,
                (bytes[1] % 4) * 16 + bytes[2] \div 16,
                (bytes[2] % 16) * 4>>
    ELSE <<bytes[1] \div 4,
           (bytes[1] % 4) * 16 + bytes[2] \div 16,
           (bytes[2] % 16) * 4 + bytes[3] \div 64,
           bytes[3] % 64>>
         \o B64(SubSeq(bytes, 4, Len(bytes)))

RECURSIVE Digits(_)
(* the decimal digits of n >= 0, as characters of the URL-safe alphabet *)
Digits(n) == IF n < 10 THEN <<52 + n>> ELSE Digits(n \div 10) \o <<52 + (n % 10)>>

(* f"{index:03}": zero-padded to three digits *)
Format03(index) ==
    LET d == Digits(index)
    IN IF Len(d) >= 3 THEN d ELSE [i \in 1..(3 - Len(d)) |-> 52] \o d

(* make_id: "_" is character 63 of the alphabet *)
make_id(stem, index) == B64(stem) \o <<63, 63>> \o Format03(index)

(* the number of chunks splitter.split_pages(pages) yields in slice_one, -1
   when the generator never ends.  simple_splitter gets at most
   MAX_OBJECT_LEN characters: one chunk, or none for a blank buffer.
   sentence_splitter gets more than max_section_length characters and its
   section_overlap is positive: the sliding window does not end. *)
ChunkCount(doc, splitter) ==
    IF doc.blank THEN 0
    ELSE IF splitter = "simple" THEN 1
    ELSE IF section_overlap(DEFAULT_SECTION_LENGTH, DEFAULT_OVERLAP_PERCENT) > 0
            /\ doc.chars > DEFAULT_SECTION_LENGTH
         THEN -1
         ELSE 1

(* the dict slice_one builds for chunk number index of fp; url is str(fp),
   content stands for the chunk's stripped text *)
SliceDict(fp, index) ==
    [id |-> make_id(fp.stem, index), url |-> fp, content |-> index]

(* what slice_one(fp) does: the splitter it chose ("none" when it did not get
   that far) and its outcome, a list of slices, "raise" or "hang" *)
slice_one(fp, doc) ==
    IF doc.kind = "malformed" THEN [splitter |-> "none", outcome |-> "raise", slices |-> <<>>]
    ELSE IF doc.kind = "unreadable"
         THEN [splitter |-> "none", outcome |-> "return", slices |-> <<>>]
    ELSE LET splitter == choose_splitter(doc.chars)
             n == ChunkCount(doc, splitter)
         IN IF n < 0
            THEN [splitter |-> splitter, outcome |-> "hang", slices |-> <<>>]
            ELSE [splitter |-> splitter, outcome |-> "return",
                  slices |-> [i \in 1..n |-> SliceDict(fp, i - 1)]]

SplitterIdle ==
    /\ pages = <<>>
    /\ strategy = "none"
    /\ conf = <<>>
    /\ pc = "idle"
    /\ start = 0
    /\ end = 0
    /\ stack = <<>>
    /\ cur_page = 0
    /\ idx = 0
    /\ sections = <<>>
    /\ out = <<>>

DriverInit ==
    /\ files \in {fs \in SUBSET Paths : Cardinality(fs) <= MaxFiles}
    /\ docs \in [files -> Docs]
    /\ num_workers \in WorkerCounts
    /\ futures = <<>>
    /\ collected = {}
    /\ all_slices = <<>>
    /\ main_pc = "start"
    /\ outfile = <<>>
    /\ SplitterIdle

(* lines 121-134: no file, or one future per file *)
MainSubmit ==
    /\ main_pc = "start"
    /\ IF files = {}
       THEN main_pc' = "done" /\ UNCHANGED futures
       ELSE /\ futures' = [fp \in files |-> [state |-> "pending", splitter |-> "none", result |-> <<>>]]
            /\ main_pc' = "collect"
    /\ UNCHANGED <<splitter_vars, files, docs, num_workers, collected, all_slices, outfile>>

Running == {fp \in DOMAIN futures : futures[fp].state = "running"}

(* a free worker of the pool takes slice_one(fp) *)
WorkerStart(fp) ==
    /\ main_pc = "collect"
    /\ futures[fp].state = "pending"
    /\ Cardinality(Running) < num_workers
    /\ futures' = [futures EXCEPT ![fp].state = "running",
                                  ![fp].splitter = slice_one(fp, docs[fp]).splitter]
    /\ UNCHANGED <<splitter_vars, files, docs, num_workers, collected, all_slices, main_pc, outfile>>

(* slice_one(fp) returns or raises; a call that hangs never gets here *)
WorkerFinish(fp) ==
    /\ main_pc = "collect"
    /\ futures[fp].state = "running"
    /\ LET r == slice_one(fp, docs[fp])
       IN /\ r.outcome # "hang"
          /\ futures' = [futures EXCEPT
                 ![fp].state = IF r.outcome = "return" THEN "returned" ELSE "raised",
                 ![fp].result = r.slices]
    /\ UNCHANGED <<splitter_vars, files, docs, num_workers, collected, all_slices, main_pc, outfile>>

(* faulty variant of Collect: the result replaces all_slices *)
CollectAssign(fp) ==
    /\ main_pc = "collect"
    /\ fp \notin collected
    /\ futures[fp].state \in {"returned", "raised"}
    /\ collected' = collected \cup {fp}
    /\ IF futures[fp].state = "returned"
       THEN all_slices' = futures[fp].result
       ELSE UNCHANGED all_slices
    /\ UNCHANGED <<splitter_vars, files, docs, num_workers, futures, main_pc, outfile>>

(* lines 135-142: one iteration of the as_completed loop *)
Collect(fp) ==
    /\ main_pc = "collect"
    /\ fp \notin collected
    /\ futures[fp].state \in {"returned", "raised"}
    /\ collected' = collected \cup {fp}
    /\ IF futures[fp].state = "returned"
       THEN all_slices' = all_slices \o futures[fp].result
       ELSE UNCHANGED all_slices
    /\ UNCHANGED <<splitter_vars, files, docs, num_workers, futures, main_pc, outfile>>

(* lines 144-150: every future has been handed out; write the slices *)
MainWrite ==
    /\ main_pc = "collect"
    /\ collected = files
    /\ outfile' = all_slices
    /\ main_pc' = "written"
    /\ UNCHANGED <<splitter_vars, files, docs, num_workers, futures, collected, all_slices>>

DriverNext ==
    \/ MainSubmit
    \/ \E fp \in files : WorkerStart(fp)
    \/ \E fp \in files : WorkerFinish(fp)
    \/ \E fp \in files : Collect(fp)
    \/ MainWrite

DriverSpec == DriverInit /\ [][DriverNext]_vars

----------------------------------------------------------------------------
(* Properties of the batch driver *)

(* C11: choose_splitter gives the sentence splitter exactly for a length
   above MAX_OBJECT_LEN, and slice_one has every document that reaches the
   choice split by the splitter its total length calls for. *)
SplitterBySize ==
    /\ \A n \in DocSizes \cup {MAX_OBJECT_LEN - 1} :
           /\ n > 1200 => choose_splitter(n) = "sentence"
           /\ n <= 1200 => choose_splitter(n) = "simple"
    /\ \A fp \in DOMAIN futures :
           futures[fp].splitter # "none" =>
               /\ docs[fp].chars > 1200 => futures[fp].splitter = "sentence"
               /\ docs[fp].chars <= 1200 => futures[fp].splitter = "simple"

(* documents on both sides of the ceiling have been given their splitter *)
BothSplittersChosen ==
    /\ \E fp \in DOMAIN futures :
           docs[fp].chars = 1200 /\ futures[fp].splitter = "simple"
    /\ \E fp \in DOMAIN futures :
           docs[fp].chars = 1201 /\ futures[fp].splitter = "sentence"

(* the slices of fp in a list of slices, in the list's order *)
SlicesOf(list, fp) ==
    LET FromFp(d) == d.url = fp
    IN SelectSeq(list, FromFp)

(* C16: a slice_one that raises leaves main in its loop, and the slices main
   has gathered, and those it writes, hold for every document whose
   slice_one returned and was handed out exactly the slices it returned, in
   their order, and no slice of any other origin. *)
ReturnedSlicesKept ==
    /\ \A fp \in collected :
           SlicesOf(all_slices, fp)
               = (IF futures[fp].state = "returned" THEN futures[fp].result ELSE <<>>)
    /\ \A i \in 1..Len(all_slices) : all_slices[i].url \in collected
    /\ main_pc = "written" =>
           /\ outfile = all_slices
           /\ \A fp \in files :
                  futures[fp].state = "returned"
                      => SlicesOf(outfile, fp) = futures[fp].result

(* the batch was written although one slice_one raised, with the slice of
   another document *)
WrittenDespiteFailure ==
    /\ main_pc = "written"
    /\ \E fp \in files : futures[fp].state = "raised"
    /\ Len(outfile) >= 1

(* C17: the ids of the slices written are pairwise distinct. *)
SliceIdsDistinct ==
    \A i \in 1..Len(outfile) : \A j \in 1..Len(outfile) :
        i # j => outfile[i].id # outfile[j].id

----------------------------------------------------------------------------
(* The sentence splitter on longer one-page documents: buffers over the
   Alphabet, and buffers of distinct characters none of which ends a
   sentence, where a chunk's text tells its position in the buffer *)

LongSectionLengths == {2, 12}
LongSearchLimits == {3}
LongTokenBudgets == {1, 3}

LongConfs ==
    [max_tokens_per_section : LongTokenBudgets,
     max_section_length : LongSectionLengths,
     overlap_percent : {0},
     sentence_search_limit : LongSearchLimits,
     mode : {"char"},
     max_object_length : {0}]

(* the characters "1", "2", ... "n" *)
DistinctText(n) == [i \in 1..n |-> ToString(i)]

LongTexts ==
    UNION {[1..n -> Alphabet] : n \in 0..MaxWinLen}
        \cup {DistinctText(n) : n \in 1..MaxRunLen}

LongInit ==
    /\ \E t \in LongTexts : pages = load_pages(<<t>>, DocMeta)
    /\ strategy = "sentence"
    /\ conf \in LongConfs
    /\ pc = "begin"
    /\ start = 0
    /\ end = 0
    /\ stack = <<>>
    /\ cur_page = 0
    /\ idx = 0
    /\ sections = <<>>
    /\ out = <<>>
    /\ DriverIdle

LongNext ==
    \/ SentenceBegin
    \/ CutSection
    \/ Advance
    \/ ReturnShort
    \/ YieldChunk
    \/ SplitChunk

LongSpec == LongInit /\ [][LongNext]_vars

----------------------------------------------------------------------------
(* Properties of split_page_by_max_tokens and of the section end *)

(* C12: each of the two recursive calls of split_page_by_max_tokens gets a
   text strictly shorter than the text that was over the budget. *)
HalvesStrictlyShorter ==
    [][SplitChunk =>
          /\ Len(stack'[1]) < Len(Head(stack))
          /\ Len(stack'[2]) < Len(Head(stack))]_vars

(* the section end as C13 describes it *)
ClaimedSectionEnd(text, s, max_section_length, limit) ==
    LET e == Min(s + max_section_length, Len(text))
        reach == Min(e + limit, Len(text))
        met == {c \in e..(reach - 1) : At(text, c) \in sentence_endings}
        cursor == IF met # {}
                  THEN CHOOSE c \in met : \A d \in met : c <= d
                  ELSE reach
        seen == {w \in e..(cursor - 1) : At(text, w) \in word_breaks}
    IN IF met # {} THEN cursor
       ELSE IF cursor - e = limit /\ seen # {}
            THEN (CHOOSE w \in seen : \A v \in seen : v <= w) + 1
            ELSE cursor

(* C13: the section ends at the sentence ending met within the search
   limit, whatever word breaks were passed; else, the limit exhausted, one
   past the last word break seen; else at the cursor. *)
SectionEndAsClaimed ==
    [][(CutSection /\ pc' = "tokens") =>
          end' = ClaimedSectionEnd(all_text, start, conf.max_section_length,
                                   conf.sentence_search_limit)]_vars

(* the positions holding a sentence ending less than boundary away from
   the centre of text *)
EndingsNearCentre(text) ==
    LET center == Len(text) \div 2
        boundary == Len(text) \div 3
    IN {q \in 0..(Len(text) - 1) :
           /\ At(text, q) \in sentence_endings
           /\ q - center < boundary
           /\ center - q < boundary}

(* the ending nearest to the centre, the left one on a tie *)
NearestEnding(text) ==
    LET center == Len(text) \div 2
        dist(q) == IF q < center THEN center - q ELSE q - center
    IN CHOOSE q \in EndingsNearCentre(text) :
           \A r \in EndingsNearCentre(text) :
               dist(q) < dist(r) \/ (dist(q) = dist(r) /\ q <= r)

(* C14: an over-budget text with a sentence ending within the boundary
   radius is cut just after the ending nearest to the centre (the left one
   on a tie) into two non-empty texts that share nothing and concatenate
   to the text. *)
CleanSplitAtNearestEnding ==
    [][(SplitChunk /\ EndingsNearCentre(Head(stack)) # {}) =>
          LET text == Head(stack)
              p == NearestEnding(text)
          IN /\ stack'[1] = Slice(text, 0, p + 1)
             /\ stack'[2] = Slice(text, p + 1, Len(text))
             /\ stack'[1] # <<>>
             /\ stack'[2] # <<>>
             /\ Len(stack'[1]) + Len(stack'[2]) = Len(text)
             /\ stack'[1] \o stack'[2] = text]_vars

(* a six-character buffer with endings one left and one right of the
   centre has been cut after the left one *)
TieSplitAfterLeftEnding ==
    /\ pc = "tokens_last" /\ out = <<>> /\ Len(stack) = 2
    /\ total_len = 6
    /\ At(all_text, 2) \in sentence_endings
    /\ At(all_text, 3) \notin sentence_endings
    /\ At(all_text, 4) \in sentence_endings
    /\ stack[1] = Slice(all_text, 0, 3)
    /\ stack[2] = Slice(all_text, 3, 6)

(* the whole buffer is one call of split_page_by_max_tokens on a text of
   distinct characters without any sentence ending *)
RunOfDistinct ==
    /\ strategy = "sentence"
    /\ total_len >= 1
    /\ total_len <= conf.max_section_length
    /\ all_text = DistinctText(total_len)

(* the position in the buffer at which a chunk of a RunOfDistinct starts *)
StartOf(chunk) ==
    (CHOOSE k \in 1..total_len : all_text[k] = chunk.text[1]) - 1

(* the fallback cut of C15: text[:mid + pad] and text[mid - pad:] *)
FallbackHalvesOverlap ==
    [][(SplitChunk /\ EndingsNearCentre(Head(stack)) = {}) =>
          LET text == Head(stack)
              mid == Len(text) \div 2
              pad == (Len(text) * 10) \div 100
          IN /\ stack'[1] = Slice(text, 0, mid + pad)
             /\ stack'[2] = Slice(text, mid - pad, Len(text))
             /\ Len(stack'[1]) + Len(stack'[2]) = Len(text) + 2 * pad]_vars

(* every split of a text without sentence endings is a fallback cut *)
FallbackAtEveryLevel ==
    [][(SplitChunk /\ RunOfDistinct) => EndingsNearCentre(Head(stack)) = {}]_vars

LeavesNonEmpty ==
    RunOfDistinct => \A i \in 1..Len(out) : out[i].text # <<>>

LeavesLeftToRight ==
    RunOfDistinct =>
        \A i, j \in 1..Len(out) : i < j => StartOf(out[i]) <= StartOf(out[j])

(* a later leaf starts at most 2*pad - 1 characters before an earlier one,
   pad being that of the whole text; never before it when pad = 0 *)
LeavesHalfByHalf ==
    RunOfDistinct =>
        LET pad == (total_len * 10) \div 100
            back == IF pad = 0 THEN 0 ELSE 2 * pad - 1
        IN \A i, j \in 1..Len(out) :
               i < j => StartOf(out[i]) - StartOf(out[j]) <= back

LeavesCover ==
    (RunOfDistinct /\ pc = "done") =>
        \A k \in 1..total_len :
            \E i \in 1..Len(out) :
                \E m \in 1..Len(out[i].text) : out[i].text[m] = all_text[k]

(* C15 as stated: the fallback halves share exactly 2*pad characters; on a
   text without sentence endings every split is a fallback, the leaves come
   out in left-to-right order of their start, and they cover the text. *)
FallbackLeavesLeftToRight ==
    /\ FallbackHalvesOverlap
    /\ FallbackAtEveryLevel
    /\ [](LeavesNonEmpty /\ LeavesLeftToRight /\ LeavesCover)

(* C15 amended: as above, but the leaves come out first half before second
   half, so a later leaf starts at most 2*pad - 1 characters before an
   earlier one (left to right only when pad = 0). *)
FallbackLeavesHalfByHalf ==
    /\ FallbackHalvesOverlap
    /\ FallbackAtEveryLevel
    /\ [](LeavesNonEmpty /\ LeavesHalfByHalf /\ LeavesCover)

(* a finished run over ten or more characters in which two consecutive
   leaves overlap *)
OverlappingLeaves ==
    /\ RunOfDistinct /\ pc = "done" /\ total_len >= 10
    /\ \E i \in 1..(Len(out) - 1) :
           StartOf(out[i + 1]) < StartOf(out[i]) + Len(out[i].text)

====
